---- MODULE Spec2Model ----
(***************************************************************************)
(* Model of backend/src/circle/gateway-service.ts: CircleGatewayService    *)
(* (domain registry, balance cache, signer lifecycle, transfer-to-vault).  *)
(*                                                                         *)
(* Strings of the program (addresses, amounts, balances) are sequences of  *)
(* one-character strings, so that toLowerCase, slice, BigInt(string) and   *)
(* parseFloat(string) are computed as the code computes them.              *)
(* Every "await" of the source splits a method into steps: the code        *)
(* between two awaits runs atomically (one JavaScript job).                *)
(***************************************************************************)
EXTENDS Integers, Sequences, FiniteSets, TLC

VARIABLES
    now,              \* Date.now(), in milliseconds
    vaultAddress,     \* CircleGatewayService.vaultAddress
    walletContracts,  \* CircleGatewayService.walletContracts: domain -> address
    refreshPc,        \* position of the constructor's initializeContracts()
    infoResponse,     \* the local "info" of initializeContracts, once received
    walletClient,     \* CircleGatewayService.walletClient (NoSigner = null)
    serverAddress,    \* CircleGatewayService.serverAddress
    balanceCache,     \* CircleGatewayService.balanceCache: lower-case key -> UnifiedBalance
    balCalls,         \* the getUnifiedBalance calls in flight and their results
    xferCalls,        \* the transferToVault calls in flight and their results
    deposit           \* the latest initiateDeposit call and its result

vars == <<now, vaultAddress, walletContracts, refreshPc, infoResponse, walletClient,
          serverAddress, balanceCache, balCalls, xferCalls, deposit>>

-----------------------------------------------------------------------------
(* Bounds of the model *)

StartTime == 1999
MaxTicks == 1
MaxInfo == 3
MaxBalances == 2
MaxSources == 2

-----------------------------------------------------------------------------
(* Strings *)

Rep(c, n) == [i \in 1..n |-> c]

\* String.prototype.slice(k) for 0 <= k
Slice(s, k) == IF k >= Len(s) THEN <<>> ELSE SubSeq(s, k + 1, Len(s))

LowerChar(c) ==
    CASE c = "A" -> "a" [] c = "B" -> "b" [] c = "C" -> "c"
      [] c = "D" -> "d" [] c = "E" -> "e" [] c = "F" -> "f"
      [] c = "X" -> "x"
      [] OTHER -> c

\* String.prototype.toLowerCase
ToLowerCase(s) == [i \in 1..Len(s) |-> LowerChar(s[i])]

\* the value undefined (a missing property or a missing key of an object)
Undefined == <<"undefined">>

\* JavaScript truthiness of a string-or-undefined value
Truthy(v) == v # Undefined /\ v # <<>>

\* the literal '0x...' the source uses for an address not yet known
Placeholder == <<"0", "x", ".", ".", ".">>

Hex(body) == <<"0", "x">> \o body

-----------------------------------------------------------------------------
(* Domain registry *)

\* keys of GatewayApiClient.CHAINS and of walletContracts
KnownDomains == {0, 1, 3, 6}

\* a domain id the tables do not list
UnknownDomain == 2

WalletA == Hex(Rep("a", 40))
WalletB == Hex(<<"B">> \o Rep("b", 39))

\* the initializer of walletContracts
InitialWalletContracts == [d \in KnownDomains |-> Placeholder]

\* walletContracts[domain]: undefined for a key the object does not have
Lookup(contracts, domain) ==
    IF domain \in DOMAIN contracts THEN contracts[domain] ELSE Undefined

\* one iteration of the loop of initializeContracts:
\* if (domain.walletContract) walletContracts[domain.domain] = domain.walletContract
ApplyInfoEntryAlways(contracts, entry) ==
    [d \in (DOMAIN contracts) \cup {entry.domain} |->
        IF d = entry.domain THEN entry.walletContract ELSE contracts[d]]

ApplyInfoEntry(contracts, entry) ==
    IF Truthy(entry.walletContract)
    THEN [d \in (DOMAIN contracts) \cup {entry.domain} |->
            IF d = entry.domain THEN entry.walletContract ELSE contracts[d]]
    ELSE contracts

\* the whole loop over info.domains
RECURSIVE ApplyInfo(_, _)
ApplyInfo(contracts, domains) ==
    IF domains = <<>> THEN contracts
    ELSE ApplyInfo(ApplyInfoEntry(contracts, Head(domains)), Tail(domains))

SeqsUpTo(S, n) == UNION {[1..k -> S] : k \in 0..n}

\* entries of GatewayInfoResponse.domains (walletContract is optional)
InfoEntries ==
    {[domain |-> 0, walletContract |-> WalletA],
     [domain |-> 0, walletContract |-> WalletB],
     [domain |-> 0, walletContract |-> Undefined],
     [domain |-> 1, walletContract |-> WalletA],
     [domain |-> 1, walletContract |-> Undefined],
     [domain |-> 3, walletContract |-> WalletB],
     [domain |-> 6, walletContract |-> WalletA],
     [domain |-> 6, walletContract |-> <<>>],
     [domain |-> UnknownDomain, walletContract |-> WalletA]}

\* entries that report the four known domains, each with or without a contract
FullInfoResponses ==
    {<<[domain |-> 0, walletContract |-> a], [domain |-> 1, walletContract |-> b],
       [domain |-> 3, walletContract |-> c], [domain |-> 6, walletContract |-> d]>> :
        a \in {WalletA}, b \in {WalletA, Undefined}, c \in {WalletB}, d \in {WalletB, <<>>}}

InfoResponses == SeqsUpTo(InfoEntries, MaxInfo) \cup FullInfoResponses

\* the responses used where the registry is only one part of the state
SmallInfoResponses ==
    {<<>>, <<[domain |-> 0, walletContract |-> WalletA]>>,
     <<[domain |-> 3, walletContract |-> WalletB], [domain |-> 0, walletContract |-> WalletA]>>}

NoInfo == <<>>

\* initializeContracts, after "await this.gatewayClient.info()" resolved
initializeContractsOk(info) ==
    /\ refreshPc = "pending"
    /\ infoResponse' = info
    /\ walletContracts' = ApplyInfo(walletContracts, info)
    /\ refreshPc' = "done"
    /\ UNCHANGED <<deposit, now, vaultAddress, walletClient, serverAddress, balanceCache,
                   balCalls, xferCalls>>

\* initializeContracts, after info() rejected: the catch block only logs
initializeContractsFail ==
    /\ refreshPc = "pending"
    /\ refreshPc' = "failed"
    /\ UNCHANGED infoResponse
    /\ UNCHANGED <<deposit, now, vaultAddress, walletContracts, walletClient, serverAddress,
                   balanceCache, balCalls, xferCalls>>

-----------------------------------------------------------------------------
(* Numbers written as strings *)

Digits == {"0", "1", "2", "3", "4", "5", "6", "7", "8", "9"}

DigitVal(c) ==
    CASE c = "0" -> 0 [] c = "1" -> 1 [] c = "2" -> 2 [] c = "3" -> 3 [] c = "4" -> 4
      [] c = "5" -> 5 [] c = "6" -> 6 [] c = "7" -> 7 [] c = "8" -> 8 [] c = "9" -> 9

RECURSIVE DigitsValue(_)
DigitsValue(s) ==
    IF s = <<>> THEN 0
    ELSE DigitsValue(SubSeq(s, 1, Len(s) - 1)) * 10 + DigitVal(s[Len(s)])

\* the number of consecutive digits of s from index i on
RECURSIVE DigitRun(_, _)
DigitRun(s, i) ==
    IF i <= Len(s) /\ s[i] \in Digits THEN 1 + DigitRun(s, i + 1) ELSE 0

SignLen(s) == IF Len(s) > 0 /\ s[1] \in {"-", "+"} THEN 1 ELSE 0
SignOf(s) == IF Len(s) > 0 /\ s[1] = "-" THEN -1 ELSE 1

RECURSIVE Pow10(_)
Pow10(n) == IF n = 0 THEN 1 ELSE 10 * Pow10(n - 1)

\* BigInt(Math.floor(parseFloat(s) * 1e6)): parseFloat reads the longest prefix
\* [sign] digits [. digits] and gives NaN when that prefix has no digit;
\* BigInt(NaN) throws (ok = FALSE).  The product is computed exactly here: the
\* balance strings of the model have a fraction of .0 or .5, which a double
\* and the multiplication by 1e6 represent exactly.
ParseBalance(s) ==
    LET sl == SignLen(s)
        il == DigitRun(s, sl + 1)
        dot == sl + il + 1 <= Len(s) /\ s[sl + il + 1] = "."
        fl == IF dot THEN DigitRun(s, sl + il + 2) ELSE 0
        ds == SubSeq(s, sl + 1, sl + il) \o SubSeq(s, sl + il + 2, sl + il + 1 + fl)
    IN  IF il + fl = 0 THEN [ok |-> FALSE, value |-> 0]
        ELSE [ok |-> TRUE,
              value |-> (SignOf(s) * DigitsValue(ds) * Pow10(6)) \div Pow10(fl)]

\* BigInt(s) for a string: [sign] digits, the empty string is 0n, anything
\* else throws a SyntaxError (ok = FALSE)
ParseBigInt(s) ==
    LET sl == SignLen(s)
        il == DigitRun(s, sl + 1)
    IN  IF s = <<>> THEN [ok |-> TRUE, value |-> 0]
        ELSE IF il = 0 \/ sl + il # Len(s) THEN [ok |-> FALSE, value |-> 0]
        ELSE [ok |-> TRUE, value |-> SignOf(s) * DigitsValue(SubSeq(s, sl + 1, Len(s)))]

-----------------------------------------------------------------------------
(* Balance aggregation: getUnifiedBalance *)

UserMixed == Hex(<<"A", "b">> \o Rep("1", 38))
UserLower == Hex(<<"a", "b">> \o Rep("1", 38))
UserOther == Hex(<<"c", "d">> \o Rep("2", 38))
UserAddresses == {UserMixed, UserLower}

BalIds == {1, 2}

\* the calls of a run in which one query ends before the next begins
SeqBalIds == {1}

\* entries of GatewayBalanceResponse.balances: "10.0", "5.5" and "0" for domain
\* 0, "5.5" and a string that is no number for domain 1
BalanceEntries ==
    {[domain |-> 0, balance |-> <<"1", "0", ".", "0">>],
     [domain |-> 0, balance |-> <<"5", ".", "5">>],
     [domain |-> 0, balance |-> <<"0">>],
     [domain |-> 1, balance |-> <<"5", ".", "5">>],
     [domain |-> 1, balance |-> <<"x">>]}
BalanceResponses == SeqsUpTo(BalanceEntries, MaxBalances)

\* the sum of the values of a chainBalances object
RECURSIVE SumValues(_)
SumValues(f) ==
    IF DOMAIN f = {} THEN 0
    ELSE LET d == CHOOSE x \in DOMAIN f : TRUE
         IN  f[d] + SumValues([x \in (DOMAIN f) \ {d} |-> f[x]])

EmptyObject == [d \in {} |-> 0]

\* chainBalances[balance.domain] = amount
SetChainBalance(chain, domain, amount) ==
    [d \in (DOMAIN chain) \cup {domain} |-> IF d = domain THEN amount ELSE chain[d]]

\* the loop over response.balances, from the accumulator acc on; ok = FALSE
\* when BigInt(...) threw inside the loop
RECURSIVE SumBalances(_, _)
SumBalances(acc, balances) ==
    IF balances = <<>> THEN acc
    ELSE LET amount == ParseBalance(Head(balances).balance)
         IN  IF ~amount.ok THEN [acc EXCEPT !.ok = FALSE]
             ELSE SumBalances(
                    [ok |-> TRUE,
                     totalBalance |-> acc.totalBalance + amount.value,
                     chainBalances |->
                        SetChainBalance(acc.chainBalances, Head(balances).domain, amount.value)],
                    Tail(balances))

Aggregate(balances) ==
    SumBalances([ok |-> TRUE, totalBalance |-> 0, chainBalances |-> EmptyObject], balances)

\* the key of balanceCache.set / balanceCache.get
CacheKeyRaw(address) == address

CacheKey(address) == ToLowerCase(address)

\* the catch block: the cached entry if there is one, else a zero balance
CatchBalanceZero(cache, address, t) ==
    [address |-> address, totalBalance |-> 0, chainBalances |-> EmptyObject,
     lastUpdated |-> t]

CatchBalanceNoFallback(cache, address, t) ==
    IF CacheKey(address) \in DOMAIN cache THEN cache[CacheKey(address)]
    ELSE [address |-> <<>>, totalBalance |-> 0, chainBalances |-> EmptyObject,
          lastUpdated |-> 0]

CatchBalance(cache, address, t) ==
    IF CacheKey(address) \in DOMAIN cache THEN cache[CacheKey(address)]
    ELSE [address |-> address, totalBalance |-> 0, chainBalances |-> EmptyObject,
          lastUpdated |-> t]

NoBalance == [address |-> <<>>, totalBalance |-> 0, chainBalances |-> EmptyObject,
              lastUpdated |-> 0]

IdleBalCall == [pc |-> "idle", address |-> <<>>, caught |-> FALSE, result |-> NoBalance]

\* "this.balanceCache.set(key, unified)"
CacheSetMixed(cache, key, unified) ==
    [k \in (DOMAIN cache) \cup {key} |->
        IF k # key THEN cache[k]
        ELSE IF key \in DOMAIN cache
             THEN [unified EXCEPT !.totalBalance = cache[key].totalBalance]
             ELSE unified]

CacheSet(cache, key, unified) ==
    [k \in (DOMAIN cache) \cup {key} |-> IF k = key THEN unified ELSE cache[k]]

\* getUnifiedBalance(address) up to "await this.gatewayClient.balances(...)"
getUnifiedBalanceCall(id, address) ==
    /\ balCalls[id].pc # "pending"
    /\ balCalls' = [balCalls EXCEPT ![id] =
                        [pc |-> "pending", address |-> address, caught |-> FALSE,
                         result |-> NoBalance]]
    /\ UNCHANGED <<deposit, now, vaultAddress, walletContracts, refreshPc, infoResponse, walletClient,
                   serverAddress, balanceCache, xferCalls>>

\* the catch block of getUnifiedBalance
getUnifiedBalanceCatch(id) ==
    /\ balCalls' = [balCalls EXCEPT ![id] =
                        [pc |-> "done", address |-> balCalls[id].address, caught |-> TRUE,
                         result |-> CatchBalance(balanceCache, balCalls[id].address, now)]]
    /\ UNCHANGED balanceCache

\* getUnifiedBalance after balances() resolved with the response
getUnifiedBalanceOk(id, response) ==
    /\ balCalls[id].pc = "pending"
    /\ LET agg == Aggregate(response)
           address == balCalls[id].address
           unified == [address |-> address, totalBalance |-> agg.totalBalance,
                       chainBalances |-> agg.chainBalances, lastUpdated |-> now]
       IN  IF agg.ok
           THEN /\ balanceCache' = CacheSet(balanceCache, CacheKey(address), unified)
                /\ balCalls' = [balCalls EXCEPT ![id] =
                                    [pc |-> "done", address |-> address, caught |-> FALSE,
                                     result |-> unified]]
           ELSE getUnifiedBalanceCatch(id)
    /\ UNCHANGED <<deposit, now, vaultAddress, walletContracts, refreshPc, infoResponse, walletClient,
                   serverAddress, xferCalls>>

\* getUnifiedBalance after balances() rejected (network error or non-2xx status)
getUnifiedBalanceFail(id) ==
    /\ balCalls[id].pc = "pending"
    /\ getUnifiedBalanceCatch(id)
    /\ UNCHANGED <<deposit, now, vaultAddress, walletContracts, refreshPc, infoResponse, walletClient,
                   serverAddress, xferCalls>>

-----------------------------------------------------------------------------
(* Signer lifecycle: initialize *)

NoSigner == "null"
Keys == {"key1", "key2"}
BadKey == "notAKey"

\* privateKeyToAccount(privateKey).address
AccountAddress(key) ==
    IF key = "key1" THEN Hex(Rep("1", 40)) ELSE Hex(Rep("2", 40))

NoAddress == <<"null">>

\* initialize(privateKey): privateKeyToAccount throws on a malformed key, before
\* any field is assigned; there is no await in the method
initializeClearing(privateKey) ==
    /\ IF privateKey \in Keys
       THEN /\ serverAddress' = AccountAddress(privateKey)
            /\ walletClient' = privateKey
       ELSE /\ serverAddress' = NoAddress
            /\ walletClient' = NoSigner
    /\ UNCHANGED <<deposit, now, vaultAddress, walletContracts, refreshPc, infoResponse, balanceCache,
                   balCalls, xferCalls>>

initialize(privateKey) ==
    /\ IF privateKey \in Keys
       THEN /\ serverAddress' = AccountAddress(privateKey)
            /\ walletClient' = privateKey
       ELSE UNCHANGED <<serverAddress, walletClient>>
    /\ UNCHANGED <<deposit, now, vaultAddress, walletContracts, refreshPc, infoResponse, balanceCache,
                   balCalls, xferCalls>>

-----------------------------------------------------------------------------
(* transferToVault *)

\* GatewayApiClient.DOMAINS.arbitrumSepolia
ArbitrumDomain == 3

DeadlineSeconds == 3600

VaultConfigured == Hex(Rep("e", 40))

\* getChainIdForDomain: mapping[domain] || 0
getChainIdForDomainArbitrum(domain) == 421614

getChainIdForDomain(domain) ==
    CASE domain = 0 -> 11155111
      [] domain = 1 -> 43113
      [] domain = 3 -> 421614
      [] domain = 6 -> 84532
      [] OTHER -> 0

Zeros24 == Rep("0", 24)

\* createBurnIntentTypedData(intent, walletContractAddress, chainId)
createBurnIntentTypedData(intent, walletContractAddress, chainId) ==
    [domain |-> [name |-> "GatewayWallet", version |-> "1", chainId |-> chainId,
                 verifyingContract |-> walletContractAddress],
     primaryType |-> "BurnIntent",
     message |-> [depositor |-> intent.depositor,
                  amount |-> intent.amount,
                  nonce |-> intent.nonce,
                  sourceDomain |-> intent.sourceDomain,
                  destinationDomain |-> intent.destinationDomain,
                  recipient |-> Hex(Zeros24 \o Slice(intent.recipient, 2)),
                  maxFee |-> intent.maxFee,
                  deadline |-> intent.deadline]]

XferIds == {1}
XferUsers == {UserMixed}
XferTotals == {7, 8}
\* entries of sources: amounts "7", "0", "-1" and "1.5" (no integer), and a
\* domain the tables do not list
SourceEntries ==
    {[domain |-> 0, amount |-> <<"7">>],
     [domain |-> 1, amount |-> <<"0">>],
     [domain |-> 0, amount |-> <<"-", "1">>],
     [domain |-> 1, amount |-> <<"1", ".", "5">>],
     [domain |-> UnknownDomain, amount |-> <<"7">>]}
SourceLists == SeqsUpTo(SourceEntries, MaxSources)

NoRequest == [account |-> NoSigner]

IdleXferCall ==
    [pc |-> "idle", userAddress |-> <<>>, sources |-> <<>>, totalAmount |-> 0,
     deadline |-> 0, signedIntents |-> <<>>, signRequest |-> NoRequest,
     signCount |-> 0, batches |-> <<>>, settled |-> "none", outcome |-> "none",
     error |-> "none",
     attestations |-> <<>>]

\* "if (!this.walletClient)"
NotInitializedNever(client) == FALSE

NotInitialized(client) == client = NoSigner

\* the statement "throw ..." / a rejected await: the call ends with an error
Throw(c, message) == [c EXCEPT !.pc = "done", !.outcome = "error", !.error = message]

\* "signedIntents.push({burnIntent, signature})"
PushFront(signedIntents, item) == <<item>> \o signedIntents

Push(signedIntents, item) == Append(signedIntents, item)

\* "this.gatewayClient.transfer(signedIntents)": the call is issued, the
\* method awaits the response
Submit(c) == [c EXCEPT !.pc = "submitting", !.batches = Append(@, c.signedIntents)]

\* "BigInt(Math.floor(Date.now() / 1000) + 3600)" for Date.now() = t
DeadlineMillis(t) == t + DeadlineSeconds

Deadline(t) == (t \div 1000) + DeadlineSeconds

\* the object literal "const burnIntent: BurnIntent = {...}" of the loop
NewBurnIntentToSource(depositor, amount, sourceDomain, deadline) ==
    [depositor |-> depositor, amount |-> amount, nonce |-> now,
     sourceDomain |-> sourceDomain, destinationDomain |-> sourceDomain,
     recipient |-> depositor, maxFee |-> 0, deadline |-> deadline]

NewBurnIntent(depositor, amount, sourceDomain, deadline) ==
    [depositor |-> depositor,
     amount |-> amount,
     nonce |-> now,
     sourceDomain |-> sourceDomain,
     destinationDomain |-> ArbitrumDomain,
     recipient |-> vaultAddress,
     maxFee |-> 0,
     deadline |-> deadline]

\* the body of "for (const source of sources)" up to "await signTypedData(...)"
\* for the source at index i
BuildAndSign(c, i) ==
    LET source == c.sources[i]
        amount == ParseBigInt(source.amount)
        burnIntent == NewBurnIntent(c.userAddress, amount.value, source.domain, c.deadline)
        chainId == getChainIdForDomain(source.domain)
        walletContract == Lookup(walletContracts, source.domain)
        typedData == createBurnIntentTypedData(burnIntent, walletContract, chainId)
    IN  IF ~amount.ok THEN Throw(c, "SyntaxError")
        ELSE [c EXCEPT !.pc = "signing",
                       !.signRequest = [account |-> walletClient,
                                        burnIntent |-> burnIntent,
                                        typedData |-> typedData],
                       !.signCount = @ + 1]

\* the loop head: the next source, or the submission after the last one
Continue(c) ==
    IF Len(c.signedIntents) < Len(c.sources)
    THEN BuildAndSign(c, Len(c.signedIntents) + 1)
    ELSE Submit(c)

\* the sum of the amounts of a list of sources
SumOfSources(sources) ==
    SumValues([i \in 1..Len(sources) |-> ParseBigInt(sources[i].amount).value])

\* the call record after the synchronous prefix of transferToVault: the
\* initialization check, the deadline, and the loop up to its first await
transferToVaultStartChecked(userAddress, sources, totalAmount) ==
    LET c == [IdleXferCall EXCEPT !.userAddress = userAddress, !.sources = sources,
                                  !.totalAmount = totalAmount]
    IN  IF NotInitialized(walletClient) THEN Throw(c, "Service not initialized")
        ELSE IF totalAmount # SumOfSources(sources) THEN Throw(c, "Amount mismatch")
        ELSE Continue([c EXCEPT !.deadline = Deadline(now)])

transferToVaultStart(userAddress, sources, totalAmount) ==
    LET c == [IdleXferCall EXCEPT !.userAddress = userAddress, !.sources = sources,
                                  !.totalAmount = totalAmount]
    IN  IF NotInitialized(walletClient)
        THEN Throw(c, "Service not initialized")
        ELSE Continue([c EXCEPT !.deadline = Deadline(now)])

\* transferToVault(userAddress, sources, _totalAmount) up to its first await.
\* A call record is used for one call: calls share nothing but the service's
\* fields, which change independently of the calls, so a later call from the
\* same service state is the run in which this record starts there.
transferToVault(id, userAddress, sources, totalAmount) ==
    /\ xferCalls[id].pc = "idle"
    /\ xferCalls' = [xferCalls EXCEPT ![id] =
            transferToVaultStart(userAddress, sources, totalAmount)]
    /\ UNCHANGED <<deposit, now, vaultAddress, walletContracts, refreshPc, infoResponse, walletClient,
                   serverAddress, balanceCache, balCalls>>

\* signTypedData resolved: the signature of the requested account over the
\* requested typed data
signTypedDataResolved(c) ==
    LET signature == [signer |-> c.signRequest.account,
                      typedData |-> c.signRequest.typedData]
    IN  Continue([c EXCEPT !.settled = "resolved", !.signedIntents =
            Push(@, [burnIntent |-> c.signRequest.burnIntent,
                     signature |-> signature])])

signTypedDataOk(id) ==
    /\ xferCalls[id].pc = "signing"
    /\ xferCalls' = [xferCalls EXCEPT ![id] = signTypedDataResolved(xferCalls[id])]
    /\ UNCHANGED <<deposit, now, vaultAddress, walletContracts, refreshPc, infoResponse, walletClient,
                   serverAddress, balanceCache, balCalls>>

\* what the method does when an awaited call rejects: there is no try/catch
RejectedAsSuccess(c, message) == [c EXCEPT !.pc = "done", !.outcome = "success"]

Rejected(c, message) == Throw(c, message)

\* signTypedData rejected
signTypedDataRejected(c) ==
    Rejected([c EXCEPT !.settled = "rejected"], "signTypedData failed")

signTypedDataFail(id) ==
    /\ xferCalls[id].pc = "signing"
    /\ xferCalls' = [xferCalls EXCEPT ![id] = signTypedDataRejected(xferCalls[id])]
    /\ UNCHANGED <<deposit, now, vaultAddress, walletContracts, refreshPc, infoResponse, walletClient,
                   serverAddress, balanceCache, balCalls>>

\* gatewayClient.transfer resolved: "return {success: true, attestations: result}"
transferResolved(c) ==
    [c EXCEPT !.pc = "done", !.settled = "resolved", !.outcome = "success",
              !.attestations = [i \in 1..Len(c.batches[Len(c.batches)]) |-> "attestation"]]

transferOk(id) ==
    /\ xferCalls[id].pc = "submitting"
    /\ xferCalls' = [xferCalls EXCEPT ![id] = transferResolved(xferCalls[id])]
    /\ UNCHANGED <<deposit, now, vaultAddress, walletContracts, refreshPc, infoResponse, walletClient,
                   serverAddress, balanceCache, balCalls>>

\* gatewayClient.transfer rejected (GatewayApiClient.post throws on a non-2xx status)
transferRejected(c) ==
    Rejected([c EXCEPT !.settled = "rejected"], "Gateway API error")

transferFail(id) ==
    /\ xferCalls[id].pc = "submitting"
    /\ xferCalls' = [xferCalls EXCEPT ![id] = transferRejected(xferCalls[id])]
    /\ UNCHANGED <<deposit, now, vaultAddress, walletContracts, refreshPc, infoResponse, walletClient,
                   serverAddress, balanceCache, balCalls>>

-----------------------------------------------------------------------------
(* initiateDeposit *)

\* "static DOMAINS: Record<string, number> = {...}"
DOMAINS ==
    [ethereum |-> 0, mainnet |-> 0, sepolia |-> 0, avalanche |-> 1, avalancheFuji |-> 1,
     arbitrum |-> 3, arbitrumSepolia |-> 3, base |-> 6, baseSepolia |-> 6]

\* DOMAINS is an object literal: a property read also finds the members it
\* inherits from Object.prototype (two of them are modelled)
InheritedNames == {"constructor", "toString"}

\* the type of "GatewayApiClient.DOMAINS[sourceChain]"
TypeOfDomain(sourceChain) ==
    IF sourceChain \in DOMAIN DOMAINS THEN "number"
    ELSE IF sourceChain \in InheritedNames THEN "function"
    ELSE "undefined"

\* "this.walletContracts[domain]" for domain = DOMAINS[sourceChain]: a function
\* used as a key is no key of walletContracts
DepositContract(sourceChain) ==
    IF TypeOfDomain(sourceChain) = "number"
    THEN Lookup(walletContracts, DOMAINS[sourceChain])
    ELSE Undefined

ChainNames == (DOMAIN DOMAINS) \cup InheritedNames \cup {"solana"}
DepositAmounts == {1, 2}

NoDeposit ==
    [outcome |-> "none", userAddress |-> <<>>, sourceChain |-> "", amount |-> 0,
     error |-> "none", contract |-> <<>>]

\* initiateDeposit(userAddress, sourceChain, amount): the method has no await
\* and assigns no field
initiateDeposit(userAddress, sourceChain, amount) ==
    /\ deposit' =
            IF TypeOfDomain(sourceChain) = "undefined"
            THEN [outcome |-> "error", userAddress |-> userAddress,
                  sourceChain |-> sourceChain, amount |-> amount,
                  error |-> "Unsupported source chain", contract |-> <<>>]
            ELSE [outcome |-> "success", userAddress |-> userAddress,
                  sourceChain |-> sourceChain, amount |-> amount,
                  error |-> "none", contract |-> DepositContract(sourceChain)]
    /\ UNCHANGED <<now, vaultAddress, walletContracts, refreshPc, infoResponse, walletClient,
                   serverAddress, balanceCache, balCalls, xferCalls>>

-----------------------------------------------------------------------------
(* Clock *)

Tick ==
    /\ now < StartTime + MaxTicks
    /\ now' = now + 1
    /\ UNCHANGED <<deposit, vaultAddress, walletContracts, refreshPc, infoResponse, walletClient,
                   serverAddress, balanceCache, balCalls, xferCalls>>

-----------------------------------------------------------------------------
(* Specifications *)

\* the state after "new CircleGatewayService()": the info request of
\* initializeContracts is in flight, no signer is bound, the cache is empty
Init ==
    /\ now = StartTime
    /\ vaultAddress \in {VaultConfigured, Placeholder}
    /\ walletContracts = InitialWalletContracts
    /\ refreshPc = "pending"
    /\ infoResponse = NoInfo
    /\ walletClient = NoSigner
    /\ serverAddress = NoAddress
    /\ balanceCache = EmptyObject
    /\ balCalls = [id \in BalIds |-> IdleBalCall]
    /\ xferCalls = [id \in XferIds |-> IdleXferCall]
    /\ deposit = NoDeposit

Refresh == \E info \in InfoResponses : initializeContractsOk(info)
RefreshSmall == \E info \in SmallInfoResponses : initializeContractsOk(info)
RefreshFail == initializeContractsFail
Initialize == \E key \in Keys \cup {BadKey} : initialize(key)
InitializeOne == \E key \in {"key1", BadKey} : initialize(key)
BalanceCall == \E id \in SeqBalIds, a \in UserAddresses : getUnifiedBalanceCall(id, a)
BalanceOk == \E id \in SeqBalIds, r \in BalanceResponses : getUnifiedBalanceOk(id, r)
BalanceFail == \E id \in SeqBalIds : getUnifiedBalanceFail(id)
TransferCall ==
    \E id \in XferIds, u \in XferUsers, s \in SourceLists, t \in XferTotals :
        transferToVault(id, u, s, t)
SignOk == \E id \in XferIds : signTypedDataOk(id)
SignFail == \E id \in XferIds : signTypedDataFail(id)
TransferOk == \E id \in XferIds : transferOk(id)
TransferFail == \E id \in XferIds : transferFail(id)

\* the domain registry and the signer
\* Two calls of transferToVault that differ only in totalAmount, run side by
\* side from the same service state, at the same clock readings and with the
\* same outcomes of the external calls.
PairIds == {1, 2}
PairTotal(id) == IF id = 1 THEN 7 ELSE 8

InitPair ==
    /\ now = StartTime
    /\ vaultAddress \in {VaultConfigured, Placeholder}
    /\ walletContracts = InitialWalletContracts
    /\ refreshPc = "pending"
    /\ infoResponse = NoInfo
    /\ walletClient = NoSigner
    /\ serverAddress = NoAddress
    /\ balanceCache = EmptyObject
    /\ balCalls = [id \in BalIds |-> IdleBalCall]
    /\ xferCalls = [id \in PairIds |-> IdleXferCall]
    /\ deposit = NoDeposit

\* both calls are at the same await and are resumed with the same outcome
PairStep(pc, resumed) ==
    /\ \A id \in PairIds : xferCalls[id].pc = pc
    /\ xferCalls' = resumed
    /\ UNCHANGED <<deposit, now, vaultAddress, walletContracts, refreshPc, infoResponse, walletClient,
                   serverAddress, balanceCache, balCalls>>

PairCall ==
    \E u \in XferUsers, s \in SourceLists :
        /\ \A id \in PairIds : xferCalls[id].pc = "idle"
        /\ xferCalls' = [id \in PairIds |-> transferToVaultStart(u, s, PairTotal(id))]
        /\ UNCHANGED <<deposit, now, vaultAddress, walletContracts, refreshPc, infoResponse,
                       walletClient, serverAddress, balanceCache, balCalls>>
PairSignOk ==
    PairStep("signing", [id \in PairIds |-> signTypedDataResolved(xferCalls[id])])
PairSignFail ==
    PairStep("signing", [id \in PairIds |-> signTypedDataRejected(xferCalls[id])])
PairTransferOk ==
    PairStep("submitting", [id \in PairIds |-> transferResolved(xferCalls[id])])
PairTransferFail ==
    PairStep("submitting", [id \in PairIds |-> transferRejected(xferCalls[id])])

NextPair ==
    PairCall \/ PairSignOk \/ PairSignFail \/ PairTransferOk \/ PairTransferFail
        \/ InitializeOne \/ RefreshSmall \/ RefreshFail \/ Tick
SpecPair == InitPair /\ [][NextPair]_vars

Deposit ==
    \E u \in XferUsers, name \in ChainNames, amount \in DepositAmounts :
        initiateDeposit(u, name, amount)

NextDeposit == Deposit \/ InitializeOne \/ RefreshSmall \/ RefreshFail
SpecDeposit == Init /\ [][NextDeposit]_vars

\* every operation of the service together, with two signing keys; the inputs
\* are few, as the signer's lifecycle does not depend on their values
LifeSources ==
    {<<[domain |-> 0, amount |-> <<"7">>]>>,
     <<[domain |-> 0, amount |-> <<"7">>], [domain |-> 1, amount |-> <<"0">>]>>}
LifeInfo == <<[domain |-> 0, walletContract |-> WalletA]>>
LifeBalances == <<[domain |-> 0, balance |-> <<"5", ".", "5">>]>>

LifeRefresh == initializeContractsOk(LifeInfo)
LifeTransferCall ==
    \E id \in XferIds, s \in LifeSources : transferToVault(id, UserMixed, s, 7)
LifeBalanceCall == \E id \in SeqBalIds : getUnifiedBalanceCall(id, UserMixed)
LifeBalanceOk == \E id \in SeqBalIds : getUnifiedBalanceOk(id, LifeBalances)
LifeDeposit == \E name \in {"base", "solana"} : initiateDeposit(UserMixed, name, 1)

NextLifecycle ==
    \/ Initialize \/ LifeRefresh \/ RefreshFail
    \/ LifeTransferCall \/ SignOk \/ SignFail \/ TransferOk \/ TransferFail
    \/ LifeBalanceCall \/ LifeBalanceOk \/ BalanceFail \/ LifeDeposit
SpecLifecycle == Init /\ [][NextLifecycle]_vars

\* two getUnifiedBalance calls in flight at once.  Each call record is used for
\* one call, and call 1 names the request that is issued first.
RaceResponses ==
    {<<[domain |-> 0, balance |-> <<"1", "0", ".", "0">>]>>,
     <<[domain |-> 0, balance |-> <<"5", ".", "5">>],
       [domain |-> 1, balance |-> <<"5", ".", "5">>]>>,
     <<[domain |-> 1, balance |-> <<"x">>]>>}

RaceCall ==
    \E id \in BalIds, a \in UserAddresses :
        /\ balCalls[id].pc = "idle"
        /\ id = 2 => balCalls[1].pc # "idle"
        /\ getUnifiedBalanceCall(id, a)
RaceOk == \E id \in BalIds, r \in RaceResponses : getUnifiedBalanceOk(id, r)
RaceFail == \E id \in BalIds : getUnifiedBalanceFail(id)

NextRace == RaceCall \/ RaceOk \/ RaceFail \/ Tick
SpecRace == Init /\ [][NextRace]_vars

NextRegistry == Refresh \/ RefreshFail \/ Initialize
SpecRegistry == Init /\ [][NextRegistry]_vars

\* the balance cache; no other operation reads or writes it
NextBalance == BalanceCall \/ BalanceOk \/ BalanceFail \/ Tick
SpecBalance == Init /\ [][NextBalance]_vars

\* the transfer flow with everything it reads: signer, registry, clock.
\* One signing key: the flow tests walletClient only against null, and no
\* operation sets it back to null.
NextTransfer ==
    \/ TransferCall \/ SignOk \/ SignFail \/ TransferOk \/ TransferFail
    \/ InitializeOne \/ RefreshSmall \/ RefreshFail \/ Tick
SpecTransfer == Init /\ [][NextTransfer]_vars

-----------------------------------------------------------------------------
(* Claims *)

XferStarted(c) == c.pc # "idle"

\* C1: a transferToVault called while no signer is bound (no initialize has
\* succeeded yet) ends with the error "Service not initialized", whatever its
\* arguments, having built no burn intent, requested no signature and made no
\* transfer call.  While walletClient is null every call made so far was
\* made in the Uninitialized state.
C1_NotInitialized ==
    walletClient = NoSigner =>
        \A id \in XferIds :
            XferStarted(xferCalls[id]) =>
                /\ xferCalls[id].pc = "done"
                /\ xferCalls[id].outcome = "error"
                /\ xferCalls[id].error = "Service not initialized"
                /\ xferCalls[id].signRequest = NoRequest
                /\ xferCalls[id].signCount = 0
                /\ xferCalls[id].signedIntents = <<>>
                /\ xferCalls[id].batches = <<>>

C1_Witness ==
    /\ walletClient = NoSigner
    /\ \E id \in XferIds :
        /\ xferCalls[id].pc = "done"
        /\ Len(xferCalls[id].sources) = 2
        /\ xferCalls[id].error = "Service not initialized"

\* C2: every UnifiedBalance returned by getUnifiedBalance or stored in the
\* cache has totalBalance equal to the sum of the values of its chainBalances,
\* also when the response lists a domain more than once.
C2_TotalIsSum ==
    /\ \A k \in DOMAIN balanceCache :
        balanceCache[k].totalBalance = SumValues(balanceCache[k].chainBalances)
    /\ \A id \in BalIds :
        balCalls[id].pc = "done" =>
            balCalls[id].result.totalBalance = SumValues(balCalls[id].result.chainBalances)

BalCatches(id) ==
    /\ balCalls[id].pc = "pending"
    /\ balCalls'[id].pc = "done"
    /\ balCalls'[id].caught

\* C3: when getUnifiedBalance(address) ends in its catch block (the balances
\* call failed) and the cache holds an entry under the lower-case address, the
\* call returns exactly that entry and the cache is unchanged.
C3_ReturnsCached ==
    [][\A id \in BalIds :
        (BalCatches(id) /\ ToLowerCase(balCalls[id].address) \in DOMAIN balanceCache) =>
            /\ balCalls'[id].result = balanceCache[ToLowerCase(balCalls[id].address)]
            /\ balanceCache' = balanceCache]_vars

C3_Witness ==
    \E id \in BalIds :
        /\ balCalls[id].pc = "done"
        /\ balCalls[id].caught
        /\ ToLowerCase(balCalls[id].address) \in DOMAIN balanceCache
        /\ balCalls[id].result = balanceCache[ToLowerCase(balCalls[id].address)]
        /\ balCalls[id].result.totalBalance = 15500000
        /\ balCalls[id].result.lastUpdated < now

\* C4: getUnifiedBalance always ends by returning a UnifiedBalance; when it
\* ends in its catch block and the cache holds no entry for the address, it
\* returns totalBalance 0, an empty chainBalances and lastUpdated = Date.now(),
\* and creates no cache entry.
C4_ZeroFallback ==
    [][\A id \in BalIds :
        /\ (balCalls[id].pc = "pending" /\ balCalls'[id] # balCalls[id]) =>
                balCalls'[id].pc = "done" /\ balCalls'[id].result # NoBalance
        /\ (BalCatches(id) /\ ToLowerCase(balCalls[id].address) \notin DOMAIN balanceCache) =>
                /\ balCalls'[id].result =
                        [address |-> balCalls[id].address, totalBalance |-> 0,
                         chainBalances |-> EmptyObject, lastUpdated |-> now]
                /\ balanceCache' = balanceCache]_vars

C4_Witness ==
    \E id \in BalIds :
        /\ balCalls[id].pc = "done"
        /\ balCalls[id].caught
        /\ balanceCache = EmptyObject
        /\ balCalls[id].result.totalBalance = 0
        /\ balCalls[id].result.lastUpdated = StartTime + 1

\* C5: every key of the cache is a lower-case address, so an address has at
\* most one entry however it is spelled, and after a getUnifiedBalance that
\* ended without failure the entry under the lower-case address is the value
\* returned.  (One query at a time: the cache cannot change between the return
\* and the next response.)
C5_OneEntryPerAddress ==
    /\ \A k \in DOMAIN balanceCache : k = ToLowerCase(k)
    /\ \A id \in SeqBalIds :
        (balCalls[id].pc = "done" /\ ~balCalls[id].caught) =>
            /\ ToLowerCase(balCalls[id].address) \in DOMAIN balanceCache
            /\ balanceCache[ToLowerCase(balCalls[id].address)] = balCalls[id].result

\* a query for the mixed-case spelling overwrote the entry that a query for
\* the lower-case spelling had written, at a later time
C5_Witness ==
    \E id \in SeqBalIds :
        /\ balCalls[id].pc = "done"
        /\ ~balCalls[id].caught
        /\ balCalls[id].address = UserMixed
        /\ DOMAIN balanceCache = {UserLower}
        /\ balanceCache[UserLower].address = UserMixed
        /\ balanceCache[UserLower].lastUpdated = StartTime + 1

\* C6: once the refresh has completed without error, the wallet contract
\* address of every known domain is no placeholder.
C6_NoPlaceholderAfterRefresh ==
    refreshPc = "done" =>
        \A d \in KnownDomains : Lookup(walletContracts, d) # Placeholder

Reported(info, d) ==
    \E i \in 1..Len(info) : info[i].domain = d /\ Truthy(info[i].walletContract)

\* C7: a refresh whose info call failed ends (it does not throw) with every
\* wallet contract address as it was; a successful refresh changes or adds
\* only the addresses of domains that the response reports with a wallet
\* contract.
C7_RefreshFrame ==
    /\ refreshPc \in {"pending", "done", "failed"}
    /\ refreshPc = "failed" => walletContracts = InitialWalletContracts
    /\ refreshPc = "done" =>
        \A d \in (DOMAIN walletContracts) \cup KnownDomains :
            ~Reported(infoResponse, d) =>
                /\ d \in DOMAIN InitialWalletContracts
                /\ Lookup(walletContracts, d) = InitialWalletContracts[d]

C7_Witness ==
    /\ refreshPc = "done"
    /\ Len(infoResponse) = 2
    /\ infoResponse[1] = [domain |-> 0, walletContract |-> WalletA]
    /\ infoResponse[2] = [domain |-> 1, walletContract |-> Undefined]
    /\ walletContracts[0] = WalletA
    /\ walletContracts[1] = Placeholder

\* C8: a transferToVault makes at most one transfer call, and only once every
\* entry of sources has been signed; the batch it submits is the list of signed
\* intents, one per entry of sources and in the same order, each with the
\* entry's domain and amount and the caller's userAddress as depositor; a
\* successful call made exactly one transfer call.
C8_OneBatchInOrder ==
    \A id \in XferIds :
        LET c == xferCalls[id] IN
        /\ Len(c.batches) <= 1
        /\ c.outcome = "success" => Len(c.batches) = 1
        /\ c.batches # <<>> =>
            /\ c.signCount = Len(c.sources)
            /\ Len(c.batches[1]) = Len(c.sources)
            /\ \A i \in 1..Len(c.sources) :
                /\ c.batches[1][i].burnIntent.sourceDomain = c.sources[i].domain
                /\ c.batches[1][i].burnIntent.amount = ParseBigInt(c.sources[i].amount).value
                /\ c.batches[1][i].burnIntent.depositor = c.userAddress
                /\ c.batches[1][i].signature.typedData.message.sourceDomain
                        = c.sources[i].domain

C8_Witness ==
    \E id \in XferIds :
        /\ xferCalls[id].outcome = "success"
        /\ xferCalls[id].sources =
                <<[domain |-> 0, amount |-> <<"7">>], [domain |-> 1, amount |-> <<"0">>]>>
        /\ Len(xferCalls[id].attestations) = 2

\* C9: when an awaited signTypedData or transfer call rejected, the
\* transferToVault has ended with an error and not with success, and it made
\* no transfer call after the rejection: none at all when a signature was
\* rejected, the one rejected call when the submission was.
C9_FailureSurfaces ==
    \A id \in XferIds :
        LET c == xferCalls[id] IN
        c.settled = "rejected" =>
            /\ c.pc = "done"
            /\ c.outcome = "error"
            /\ Len(c.batches) <= 1
            /\ Len(c.signedIntents) < Len(c.sources) => c.batches = <<>>
            /\ c.signCount <= Len(c.sources)

C9_Witness ==
    \E id \in XferIds :
        /\ xferCalls[id].settled = "rejected"
        /\ xferCalls[id].outcome = "error"
        /\ Len(xferCalls[id].sources) = 2
        /\ Len(xferCalls[id].batches) = 1

IntentsOf(c) ==
    {c.signedIntents[i].burnIntent : i \in 1..Len(c.signedIntents)}
        \cup (IF c.signRequest = NoRequest THEN {} ELSE {c.signRequest.burnIntent})

\* C10: every burn intent that transferToVault has built and handed to the
\* signer has a sourceDomain that is a key of the registry, and a call whose
\* sources name a domain other than 0, 1, 3, 6 ends with an error without any
\* signature request or transfer call.
C10_KnownSourceDomain ==
    \A id \in XferIds :
        LET c == xferCalls[id] IN
        /\ \A b \in IntentsOf(c) : b.sourceDomain \in DOMAIN walletContracts
        /\ (XferStarted(c) /\ \E i \in 1..Len(c.sources) : c.sources[i].domain \notin KnownDomains)
                => /\ c.outcome = "error"
                   /\ c.signCount = 0
                   /\ c.batches = <<>>


\* C11: every burn intent that transferToVault has handed to the signer or
\* submitted has an amount strictly greater than 0, also when an entry of
\* sources has the amount "0" or a negative amount.
C11_PositiveAmount ==
    \A id \in XferIds :
        /\ \A b \in IntentsOf(xferCalls[id]) : b.amount > 0
        /\ \A k \in 1..Len(xferCalls[id].batches) :
            \A i \in 1..Len(xferCalls[id].batches[k]) :
                xferCalls[id].batches[k][i].burnIntent.amount > 0


XferBegins(id) == xferCalls[id].pc = "idle" /\ xferCalls'[id].pc # "idle"

\* C12: a transferToVault made with a signer bound computes its deadline
\* once, as T + 3600 with T the clock in whole seconds (Date.now() / 1000
\* rounded down) at that moment; the deadline never changes afterwards, is
\* greater than T, and is the deadline of every burn intent the call builds.
C12_DeadlineOneHour ==
    [][\A id \in XferIds :
        /\ (XferBegins(id) /\ walletClient # NoSigner) =>
                /\ xferCalls'[id].deadline = (now \div 1000) + 3600
                /\ xferCalls'[id].deadline > now \div 1000
        /\ ~XferBegins(id) => xferCalls'[id].deadline = xferCalls[id].deadline
        /\ \A b \in IntentsOf(xferCalls'[id]) : b.deadline = xferCalls'[id].deadline]_vars

\* two intents of one call, built in different seconds, carry the deadline of
\* the second in which the call began
C12_Witness ==
    \E id \in XferIds :
        /\ Len(xferCalls[id].signedIntents) = 2
        /\ xferCalls[id].signedIntents[1].burnIntent.nonce = 1999
        /\ xferCalls[id].signedIntents[2].burnIntent.nonce = 2000
        /\ xferCalls[id].signedIntents[1].burnIntent.deadline = 3601
        /\ xferCalls[id].signedIntents[2].burnIntent.deadline = 3601


\* the (burn intent, typed data) pairs a call has handed to the signer
SigningPairs(c) ==
    {[burnIntent |-> c.signedIntents[i].burnIntent,
      typedData |-> c.signedIntents[i].signature.typedData] : i \in 1..Len(c.signedIntents)}
        \cup (IF c.signRequest = NoRequest THEN {}
              ELSE {[burnIntent |-> c.signRequest.burnIntent,
                     typedData |-> c.signRequest.typedData]})

\* "0x" followed by 24 zero digits (12 bytes) and the 40 digits (20 bytes) of
\* the address a
IsPadded32(r, a) ==
    /\ Len(a) = 42
    /\ Len(r) = 66
    /\ r[1] = "0" /\ r[2] = "x"
    /\ \A i \in 3..26 : r[i] = "0"
    /\ \A i \in 1..40 : r[26 + i] = a[2 + i]

\* C13: in the typed-data message of every burn intent handed to the signer,
\* recipient is the 32-byte value of 12 zero bytes followed by the 20 bytes
\* of the intent's recipient address, and the seven other fields are the
\* intent's fields unchanged.
C13_RecipientBytes32 ==
    \A id \in XferIds :
        \A p \in SigningPairs(xferCalls[id]) :
            /\ IsPadded32(p.typedData.message.recipient, p.burnIntent.recipient)
            /\ p.typedData.message.depositor = p.burnIntent.depositor
            /\ p.typedData.message.amount = p.burnIntent.amount
            /\ p.typedData.message.nonce = p.burnIntent.nonce
            /\ p.typedData.message.sourceDomain = p.burnIntent.sourceDomain
            /\ p.typedData.message.destinationDomain = p.burnIntent.destinationDomain
            /\ p.typedData.message.maxFee = p.burnIntent.maxFee
            /\ p.typedData.message.deadline = p.burnIntent.deadline


\* C14: no operation changes vaultAddress, and every burn intent that a
\* transferToVault has built has destinationDomain 3 (Arbitrum) and the
\* configured vaultAddress as recipient, whatever the caller passed and
\* whatever the state of the signer and of the registry.
C14_FixedDestination ==
    [][/\ vaultAddress' = vaultAddress
       /\ \A id \in XferIds :
            \A b \in IntentsOf(xferCalls'[id]) :
                b.destinationDomain = 3 /\ b.recipient = vaultAddress]_vars

C14_Witness ==
    \E id \in XferIds :
        /\ Len(xferCalls[id].signedIntents) = 2
        /\ refreshPc = "done"
        /\ vaultAddress = VaultConfigured
        /\ xferCalls[id].signedIntents[1].burnIntent.sourceDomain = 0
        /\ xferCalls[id].signedIntents[2].burnIntent.sourceDomain = 1
        /\ xferCalls[id].signedIntents[2].burnIntent.recipient = VaultConfigured
        /\ xferCalls[id].signedIntents[2].burnIntent.destinationDomain = 3


\* the chain ids the claim lists for the known domains
ClaimedChainId(d) ==
    CASE d = 0 -> 11155111 [] d = 1 -> 43113 [] d = 3 -> 421614 [] d = 6 -> 84532

WithoutTotal(c) == [c EXCEPT !.totalAmount = 0]

\* C16: two calls of transferToVault that differ only in totalAmount and run
\* from the same service state, clock and external outcomes are at every
\* moment in the same position with the same burn intents built, signed and
\* submitted and the same result; a failure is never caused by totalAmount
\* differing from the sum of the sources.
C16_TotalAmountIgnored ==
    /\ WithoutTotal(xferCalls[1]) = WithoutTotal(xferCalls[2])
    /\ \A id \in PairIds :
        xferCalls[id].outcome = "error" =>
            xferCalls[id].error \in {"Service not initialized", "SyntaxError",
                                      "signTypedData failed", "Gateway API error"}

\* both calls succeeded with the same submitted batch, one with a totalAmount
\* equal to the sum of its sources and one with a different totalAmount
C16_Witness ==
    /\ xferCalls[1].outcome = "success"
    /\ xferCalls[2].outcome = "success"
    /\ xferCalls[1].batches = xferCalls[2].batches
    /\ Len(xferCalls[1].batches) = 1
    /\ xferCalls[1].totalAmount = SumOfSources(xferCalls[1].sources)
    /\ xferCalls[2].totalAmount # SumOfSources(xferCalls[2].sources)
    /\ xferCalls[1].totalAmount # xferCalls[2].totalAmount


\* C17: initiateDeposit fails with UnsupportedChain exactly when the chain
\* name is not a key of the chain-name table and succeeds otherwise, whether or
\* not a signer is bound; it starts no external call and leaves the signer,
\* the registry and the balance cache unchanged.
C17_DepositValidatesChain ==
    [][deposit' # deposit =>
        /\ (deposit'.outcome = "error") <=> (deposit'.sourceChain \notin DOMAIN DOMAINS)
        /\ deposit'.outcome = "error" => deposit'.error = "Unsupported source chain"
        /\ deposit'.outcome \in {"error", "success"}
        /\ UNCHANGED <<walletClient, serverAddress, walletContracts, balanceCache,
                       refreshPc, infoResponse, balCalls, xferCalls>>]_vars

\* the part of C17 that the code has: failure for a name that is neither in
\* the table nor inherited, and the frame
C17_Frame ==
    [][deposit' # deposit =>
        /\ deposit'.sourceChain \notin (DOMAIN DOMAINS) \cup InheritedNames
                => deposit'.outcome = "error"
        /\ deposit'.sourceChain \in DOMAIN DOMAINS => deposit'.outcome = "success"
        /\ UNCHANGED <<walletClient, serverAddress, walletContracts, balanceCache,
                       refreshPc, infoResponse, balCalls, xferCalls>>]_vars


\* the burn intents a call has built so far, in the order it built them
BuiltIntents(c) ==
    [i \in 1..Len(c.signedIntents) |-> c.signedIntents[i].burnIntent]
        \o (IF c.signCount > Len(c.signedIntents) THEN <<c.signRequest.burnIntent>> ELSE <<>>)

\* C18: the nonces of the burn intents built for one depositor increase: within
\* a call each intent's nonce is greater than that of the intent built before
\* it, and intents of two calls for the same depositor never share a nonce.
C18_NoncesIncrease ==
    /\ \A id \in XferIds :
        LET b == BuiltIntents(xferCalls[id])
        IN  \A i, j \in 1..Len(b) : i < j => b[i].nonce < b[j].nonce
    /\ \A id1, id2 \in XferIds :
        id1 # id2 =>
            \A b1 \in IntentsOf(xferCalls[id1]), b2 \in IntentsOf(xferCalls[id2]) :
                b1.depositor = b2.depositor => b1.nonce # b2.nonce

\* the part of C18 that the code has: a nonce is the clock reading at the
\* moment the intent is built, so nonces within a call never decrease
C18_NoncesNeverDecrease ==
    \A id \in XferIds :
        LET b == BuiltIntents(xferCalls[id])
        IN  \A i, j \in 1..Len(b) : i < j => b[i].nonce <= b[j].nonce


\* C19: the address field of every UnifiedBalance that getUnifiedBalance has
\* returned or that the cache holds is the lower-case form of the queried
\* address (for a cache entry: of its key's address), for successful results,
\* cached fallbacks and zero fallbacks alike.
C19_AddressNormalized ==
    /\ \A k \in DOMAIN balanceCache : balanceCache[k].address = k
    /\ \A id \in BalIds :
        balCalls[id].pc = "done" =>
            balCalls[id].result.address = ToLowerCase(balCalls[id].address)

\* the part of C19 that the code has: the address field is the queried
\* address up to the case of its letters
C19_AddressUpToCase ==
    /\ \A k \in DOMAIN balanceCache : ToLowerCase(balanceCache[k].address) = k
    /\ \A id \in BalIds :
        balCalls[id].pc = "done" =>
            ToLowerCase(balCalls[id].result.address) = ToLowerCase(balCalls[id].address)


\* C20: transferToVault never asks for, stores or submits a signature over a
\* burn intent whose verifyingContract is the placeholder wallet contract
\* address, whether the startup refresh is still pending, has failed, or has
\* left out the source domain.
C20_NoPlaceholderSigned ==
    \A id \in XferIds :
        /\ \A p \in SigningPairs(xferCalls[id]) :
                p.typedData.domain.verifyingContract # Placeholder
        /\ \A k \in 1..Len(xferCalls[id].batches) :
            \A i \in 1..Len(xferCalls[id].batches[k]) :
                xferCalls[id].batches[k][i].signature.typedData.domain.verifyingContract
                    # Placeholder

\* the part of C20 that the code has: an intent whose source domain the
\* completed refresh reported is signed with the reported contract
C20_ReportedContractSigned ==
    [][\A id \in XferIds :
        (/\ xferCalls'[id].signCount = xferCalls[id].signCount + 1
         /\ refreshPc = "done"
         /\ Reported(infoResponse, xferCalls'[id].signRequest.burnIntent.sourceDomain))
            => xferCalls'[id].signRequest.typedData.domain.verifyingContract # Placeholder]_vars


\* C21: a bound signer is never unbound: no operation, a failed or repeated
\* initialize included, takes walletClient back to null; a successful
\* initialize binds the signer of its key (replacing the one before), and
\* every signature requested from then on is requested from, and produced by,
\* the signer bound at the moment of the request.
C21_SignerLifecycle ==
    [][/\ walletClient # NoSigner => walletClient' # NoSigner
       /\ walletClient' # walletClient =>
            /\ walletClient' \in Keys
            /\ serverAddress' = AccountAddress(walletClient')
       /\ \A id \in XferIds :
            LET c == xferCalls[id]
                d == xferCalls'[id]
            IN  /\ d.signCount = c.signCount + 1 =>
                    /\ walletClient # NoSigner
                    /\ d.signRequest.account = walletClient
                /\ Len(d.signedIntents) = Len(c.signedIntents) + 1 =>
                    d.signedIntents[Len(d.signedIntents)].signature.signer
                        = c.signRequest.account]_vars

\* a batch whose first intent was signed by the first signer and, after a
\* repeated initialize, whose second was signed by the second signer
C21_Witness ==
    \E id \in XferIds :
        /\ walletClient = "key2"
        /\ Len(xferCalls[id].signedIntents) = 2
        /\ xferCalls[id].signedIntents[1].signature.signer = "key1"
        /\ xferCalls[id].signedIntents[2].signature.signer = "key2"

\* not part of C21 and not a property of the code: that a signature resolves
\* from the signer bound when it resolves.  A signature requested before a
\* repeated initialize resolves after it from the signer it was requested
\* from (there is no teardown of the prior signer).
C21_ResolvedByCurrentSigner ==
    [][\A id \in XferIds :
        Len(xferCalls'[id].signedIntents) = Len(xferCalls[id].signedIntents) + 1 =>
            xferCalls'[id].signedIntents[Len(xferCalls'[id].signedIntents)].signature.signer
                = walletClient]_vars


\* call id has returned the result of a successful refresh
Refreshed(calls, id) == calls[id].pc = "done" /\ ~calls[id].caught

\* C22: with getUnifiedBalance calls for one address in flight at once, the
\* cache changes only when a call processes a successful response, and then
\* the entry under the call's lower-case address becomes, as a whole, the
\* result of that call, replacing what was there; so every entry is at every
\* moment the complete result of one successful refresh, and the entry left
\* at the end is that of the response processed last.
C22_WholeEntryLastWriter ==
    [][/\ \A id \in BalIds :
            (balCalls[id].pc = "pending" /\ Refreshed(balCalls', id)) =>
                /\ CacheKey(balCalls[id].address) \in DOMAIN balanceCache'
                /\ balanceCache'[CacheKey(balCalls[id].address)] = balCalls'[id].result
                /\ \A k \in DOMAIN balanceCache' :
                        k # CacheKey(balCalls[id].address) =>
                            k \in DOMAIN balanceCache /\ balanceCache'[k] = balanceCache[k]
       /\ balanceCache' # balanceCache =>
            \E id \in BalIds : balCalls[id].pc = "pending" /\ Refreshed(balCalls', id)
       /\ \A k \in DOMAIN balanceCache' :
            \E id \in BalIds :
                /\ Refreshed(balCalls', id)
                /\ CacheKey(balCalls'[id].address) = k
                /\ balanceCache'[k] = balCalls'[id].result]_vars

\* both calls asked for the same address and succeeded with different
\* results; the cache holds the result of call 1, the request issued first,
\* whose response was processed last
C22_Witness ==
    /\ Refreshed(balCalls, 1)
    /\ Refreshed(balCalls, 2)
    /\ CacheKey(balCalls[1].address) = CacheKey(balCalls[2].address)
    /\ balCalls[1].result.totalBalance # balCalls[2].result.totalBalance
    /\ balCalls[1].result.lastUpdated > balCalls[2].result.lastUpdated
    /\ balanceCache[CacheKey(balCalls[1].address)] = balCalls[1].result

====
